---- MODULE Spec2Model ----
(***************************************************************************)
(* The chat component of yewchat (src/components/chat.rs): the wire        *)
(* envelope and its serde decoding, Chat::create, Chat::update for         *)
(* Msg::HandleMsg and Msg::SubmitMessage, and the part of Chat::view that  *)
(* resolves the sender of each message in the roster.                      *)
(*                                                                         *)
(* A JSON text is modelled by its shape: what serde_json sees when it      *)
(* parses it.  A text is a record [kind, mt, da, d]; kind "garbage" is a   *)
(* string that is no JSON object.  mt is the string under "messageType"    *)
(* (Absent when the key is missing), da the value under "dataArray" and d  *)
(* the value under "data".  The string under "data" is again a text to be  *)
(* parsed (the nested payload) or a plain word (a username, chat input).   *)
(***************************************************************************)
EXTENDS Integers, Sequences, FiniteSets, TLC

VARIABLES
    pc,         \* "start" | "idle" | "render" | "panicked": where the component is
    users,      \* Chat.users: Vec<UserProfile>
    messages,   \* Chat.messages: Vec<MessageData>
    chat_input, \* value of the <input> element behind Chat.chat_input
    outbox,     \* every wss.tx.try_send attempt: <<[text, ok]>>
    delivered,  \* history: every frame the event bus delivered, in order
    ret,        \* what the last call of update returned: "none"|"true"|"false"|"panic"
    fault,      \* the unwrap that panicked: "none"|"L87"|"L106_data"|"L106_nested"|"L170"
    username,   \* user.username of the ambient User context, read by create
    codec       \* the wire codec applied to one envelope: [stage, env, wire, back]

vars == <<pc, users, messages, chat_input, outbox, delivered, ret, fault, username, codec>>

\* ---------------------------------------------------------------- bounds
MaxEvents == 4

MaxArrayLen == 2

\* ---------------------------------------------------------------- inputs
Absent == "<absent>"

Names == {"alice", "bob"}
Usernames == {"alice", "bob"}
InputTexts == {"", "hi"}

NoArray == [tag |-> "absent", items |-> <<>>]
NullArray == [tag |-> "null", items |-> <<>>]
JArray(names) == [tag |-> "array", items |-> names]

NoText == [kind |-> "plain", s |-> "", from |-> Absent, message |-> Absent]
Plain(w) == [kind |-> "plain", s |-> w, from |-> Absent, message |-> Absent]
JPair(f, m) == [kind |-> "obj", s |-> "", from |-> f, message |-> m]

NoData == [tag |-> "absent", text |-> NoText]
NullData == [tag |-> "null", text |-> NoText]
JString(t) == [tag |-> "string", text |-> t]

Garbage == [kind |-> "garbage", mt |-> Absent, da |-> NoArray, d |-> NoData]
JObject(mt, da, d) == [kind |-> "obj", mt |-> mt, da |-> da, d |-> d]

UsersFrames ==
    { JObject("users", a, NoData) :
        a \in { NoArray, NullArray, JArray(<<>>), JArray(<<"alice">>),
                JArray(<<"alice", "bob">>), JArray(<<"bob", "bob">>) } }

MessagePairs == { <<"alice", "hi">>, <<"bob", "yo">>, <<"ghost", "hello.gif">> }

MessageFrames ==
    { JObject("message", NoArray, JString(JPair(p[1], p[2]))) : p \in MessagePairs }

BadMessageFrames ==
    { JObject("message", NoArray, NoData),
      JObject("message", NoArray, JString(Plain("hi"))),
      JObject("message", NoArray, JString(JPair("alice", Absent))) }

RegisterFrames == { JObject("register", NoArray, JString(Plain("bob"))) }

BadFrames ==
    { Garbage,
      JObject(Absent, NoArray, NoData),
      JObject("typing", NoArray, NoData) }

Frames == UsersFrames \cup MessageFrames \cup BadMessageFrames
            \cup RegisterFrames \cup BadFrames

\* ---------------------------------------------------------------- wire codec
NoneVec == [some |-> FALSE, v |-> <<>>]
SomeVec(x) == [some |-> TRUE, v |-> x]
NoneStr == [some |-> FALSE, v |-> NoText]
SomeStr(t) == [some |-> TRUE, v |-> t]

DecodeFailed ==
    [ok |-> FALSE, message_type |-> "none", data_array |-> NoneVec, data |-> NoneStr]

\* #[serde(rename_all = "lowercase")] enum MsgTypes
MsgTypeOfWire(w) ==
    CASE w = "users" -> "Users"
      [] w = "register" -> "Register"
      [] w = "message" -> "Message"
      [] OTHER -> "none"

WireOfMsgType(t) ==
    CASE t = "Users" -> "users"
      [] t = "Register" -> "register"
      [] t = "Message" -> "message"

\* mutant: data_array declared Vec<String>, so a missing dataArray fails to decode
DecodeEnvelope_ArrayRequired(s) ==
    IF s.kind # "obj" THEN DecodeFailed
    ELSE IF MsgTypeOfWire(s.mt) = "none" THEN DecodeFailed
    ELSE IF s.da.tag # "array" THEN DecodeFailed
    ELSE IF s.d.tag \notin {"absent", "null", "string"} THEN DecodeFailed
    ELSE [ok |-> TRUE,
          message_type |-> MsgTypeOfWire(s.mt),
          data_array |-> SomeVec(s.da.items),
          data |-> IF s.d.tag = "string" THEN SomeStr(s.d.text) ELSE NoneStr]

\* serde_json::from_str::<WebSocketMessage>: messageType is required and must
\* name a variant; the two Option fields are None when missing or null.
DecodeEnvelope(s) ==
    IF s.kind # "obj" THEN DecodeFailed
    ELSE IF MsgTypeOfWire(s.mt) = "none" THEN DecodeFailed
    ELSE IF s.da.tag \notin {"absent", "null", "array"} THEN DecodeFailed
    ELSE IF s.d.tag \notin {"absent", "null", "string"} THEN DecodeFailed
    ELSE [ok |-> TRUE,
          message_type |-> MsgTypeOfWire(s.mt),
          data_array |-> IF s.da.tag = "array" THEN SomeVec(s.da.items) ELSE NoneVec,
          data |-> IF s.d.tag = "string" THEN SomeStr(s.d.text) ELSE NoneStr]

\* mutant: a None data_array is written as an empty array
EncodeEnvelope_EmptyForNone(e) ==
    JObject(WireOfMsgType(e.message_type),
            IF e.data_array.some THEN JArray(e.data_array.v) ELSE JArray(<<>>),
            IF e.data.some THEN JString(e.data.v) ELSE NullData)

\* serde_json::to_string(&WebSocketMessage): a None field is written as null.
EncodeEnvelope(e) ==
    JObject(WireOfMsgType(e.message_type),
            IF e.data_array.some THEN JArray(e.data_array.v) ELSE NullArray,
            IF e.data.some THEN JString(e.data.v) ELSE NullData)

\* serde_json::from_str::<MessageData>: both fields are required strings.
DecodeMessageData(t) ==
    IF t.kind = "obj" /\ t.from # Absent /\ t.message # Absent
    THEN [ok |-> TRUE, from |-> t.from, message |-> t.message]
    ELSE [ok |-> FALSE, from |-> Absent, message |-> Absent]

\* ---------------------------------------------------------------- session state
AvatarBase == "https://avatars.dicebear.com/api/adventurer-neutral/"

\* mutant: the file suffix is left off the avatar URL
deriveAvatarUrl_NoSuffix(u) == AvatarBase \o u

\* format!("https://avatars.dicebear.com/api/adventurer-neutral/{}.svg", u)
deriveAvatarUrl(u) == AvatarBase \o u \o ".svg"

UserProfile(u) == [name |-> u, avatar |-> deriveAvatarUrl(u)]

\* users_from_message.iter().map(..).collect()
CollectUsers(names) == [i \in 1..Len(names) |-> UserProfile(names[i])]

\* msg.data_array.unwrap_or_default()
UnwrapOrDefault(opt) == IF opt.some THEN opt.v ELSE <<>>

\* self.users.iter().find(|u| u.name == m.from) is Some
FindUser(us, from) == \E i \in 1..Len(us) : us[i].name = from

\* mutant: a message is stored only when its sender is in the roster
PushMessage_KnownSender(log, md) ==
    IF FindUser(users, md.from)
    THEN Append(log, [from |-> md.from, message |-> md.message])
    ELSE log

\* mutant: the log keeps only the newest entry
PushMessage_Window(log, md) == <<[from |-> md.from, message |-> md.message]>>

\* self.messages.push(message_data)
PushMessage(log, md) == Append(log, [from |-> md.from, message |-> md.message])

\* view: every message's sender is unwrapped out of the roster
ViewOk(us, ms) == \A i \in 1..Len(ms) : FindUser(us, ms[i].from)

Events == Len(delivered) + Len(outbox)

\* every WebSocketMessage value over the small payloads: each of the three
\* types, data and data_array each None or Some
NameSeqs == UNION { [1..n -> Names] : n \in 0..MaxArrayLen }
DataTexts == { Plain(w) : w \in InputTexts \cup Usernames }
               \cup { JPair(p[1], p[2]) : p \in MessagePairs }
Envelopes ==
    [message_type : {"Users", "Register", "Message"},
     data_array : {NoneVec} \cup { SomeVec(a) : a \in NameSeqs },
     data : {NoneStr} \cup { SomeStr(x) : x \in DataTexts }]

NoEnvelope == [message_type |-> "Register", data_array |-> NoneVec, data |-> NoneStr]

\* the codec at rest: no envelope is being encoded or decoded on its own
CodecIdle == [stage |-> "idle", env |-> NoEnvelope, wire |-> Garbage, back |-> DecodeFailed]

\* ---------------------------------------------------------------- operations
Init ==
    /\ pc = "start"
    /\ users = <<>>
    /\ messages = <<>>
    /\ chat_input = ""
    /\ outbox = <<>>
    /\ delivered = <<>>
    /\ ret = "none"
    /\ fault = "none"
    /\ username \in Usernames
    /\ codec = CodecIdle

Panic(at) ==
    /\ pc' = "panicked"
    /\ fault' = at
    /\ UNCHANGED <<users, messages>>

\* mutant: a failed Register send is unwrapped, so create panics
Create_FailStops(name, ok) ==
    /\ pc = "start"
    /\ name = username
    /\ outbox' = Append(outbox,
           [text |-> EncodeEnvelope([message_type |-> "Register",
                                     data |-> SomeStr(Plain(name)),
                                     data_array |-> NoneVec]),
            ok |-> ok])
    /\ users' = <<>>
    /\ messages' = <<>>
    /\ pc' = IF ok THEN "render" ELSE "panicked"
    /\ fault' = IF ok THEN "none" ELSE "L67"
    /\ UNCHANGED <<chat_input, delivered, ret, username, codec>>

\* Chat::create: one try_send of the Register envelope, then the empty state;
\* the component is rendered for the first time afterwards.
Create(name, ok) ==
    /\ pc = "start"
    /\ name = username
    /\ outbox' = Append(outbox,
           [text |-> EncodeEnvelope([message_type |-> "Register",
                                     data |-> SomeStr(Plain(name)),
                                     data_array |-> NoneVec]),
            ok |-> ok])
    /\ users' = <<>>
    /\ messages' = <<>>
    /\ pc' = "render"
    /\ UNCHANGED <<chat_input, delivered, ret, fault, username, codec>>

\* mutant: a roster update drops the logged messages of users who left
UsersBranch_PruneLog(msg) ==
    /\ users' = CollectUsers(UnwrapOrDefault(msg.data_array))
    /\ messages' = SelectSeq(messages, LAMBDA m : FindUser(users', m.from))
    /\ ret' = "true"
    /\ pc' = "render"
    /\ UNCHANGED fault

\* mutant: the new profiles are added to the roster instead of replacing it
UsersBranch_Patch(msg) ==
    /\ users' = users \o CollectUsers(UnwrapOrDefault(msg.data_array))
    /\ ret' = "true"
    /\ pc' = "render"
    /\ UNCHANGED <<messages, fault>>

\* MsgTypes::Users arm of update
UsersBranch(msg) ==
    /\ users' = CollectUsers(UnwrapOrDefault(msg.data_array))
    /\ ret' = "true"
    /\ pc' = "render"
    /\ UNCHANGED <<messages, fault>>

\* MsgTypes::Message arm of update
MessageBranch(msg) ==
    IF ~msg.data.some
    THEN Panic("L106_data") /\ ret' = "panic"
    ELSE LET md == DecodeMessageData(msg.data.v) IN
         IF ~md.ok
         THEN Panic("L106_nested") /\ ret' = "panic"
         ELSE /\ messages' = PushMessage(messages, md)
              /\ ret' = "true"
              /\ pc' = "render"
              /\ UNCHANGED <<users, fault>>

\* mutant: the fallback arm asks for a re-render
OtherBranch_Rerender(msg) ==
    /\ ret' = "true"
    /\ pc' = "render"
    /\ UNCHANGED <<users, messages, fault>>

\* the `_` arm of update (MsgTypes::Register)
OtherBranch(msg) ==
    /\ ret' = "false"
    /\ UNCHANGED <<pc, users, messages, fault>>

\* Chat::update, Msg::HandleMsg(s)
HandleMsg(s) ==
    /\ pc = "idle"
    /\ Events < MaxEvents
    /\ delivered' = Append(delivered, s)
    /\ UNCHANGED <<chat_input, outbox, username, codec>>
    /\ LET msg == DecodeEnvelope(s) IN
       IF ~msg.ok
       THEN Panic("L87") /\ ret' = "panic"
       ELSE CASE msg.message_type = "Users" -> UsersBranch(msg)
              [] msg.message_type = "Message" -> MessageBranch(msg)
              [] OTHER -> OtherBranch(msg)

\* mutant: submit sends a Register envelope (the envelope of create, copied)
SubmitMessage_AsRegister(ok) ==
    /\ pc = "idle"
    /\ Events < MaxEvents
    /\ outbox' = Append(outbox,
           [text |-> EncodeEnvelope([message_type |-> "Register",
                                     data |-> SomeStr(Plain(chat_input)),
                                     data_array |-> NoneVec]),
            ok |-> ok])
    /\ chat_input' = ""
    /\ ret' = "false"
    /\ UNCHANGED <<pc, users, messages, delivered, fault, username, codec>>

\* mutant: the input is cleared before its value is read
SubmitMessage_Stale(ok) ==
    /\ pc = "idle"
    /\ Events < MaxEvents
    /\ outbox' = Append(outbox,
           [text |-> EncodeEnvelope([message_type |-> "Message",
                                     data |-> SomeStr(Plain("")),
                                     data_array |-> NoneVec]),
            ok |-> ok])
    /\ chat_input' = ""
    /\ ret' = "false"
    /\ UNCHANGED <<pc, users, messages, delivered, fault, username, codec>>

\* mutant: the input is cleared only when the send succeeded
SubmitMessage_KeepOnError(ok) ==
    /\ pc = "idle"
    /\ Events < MaxEvents
    /\ outbox' = Append(outbox,
           [text |-> EncodeEnvelope([message_type |-> "Message",
                                     data |-> SomeStr(Plain(chat_input)),
                                     data_array |-> NoneVec]),
            ok |-> ok])
    /\ chat_input' = IF ok THEN "" ELSE chat_input
    /\ ret' = "false"
    /\ UNCHANGED <<pc, users, messages, delivered, fault, username, codec>>

\* Chat::update, Msg::SubmitMessage (the input element exists once rendered)
SubmitMessage(ok) ==
    /\ pc = "idle"
    /\ Events < MaxEvents
    /\ outbox' = Append(outbox,
           [text |-> EncodeEnvelope([message_type |-> "Message",
                                     data |-> SomeStr(Plain(chat_input)),
                                     data_array |-> NoneVec]),
            ok |-> ok])
    /\ chat_input' = ""
    /\ ret' = "false"
    /\ UNCHANGED <<pc, users, messages, delivered, fault, username, codec>>

\* Chat::view, run after create and after every update that returned true
Render ==
    /\ pc = "render"
    /\ IF ViewOk(users, messages)
       THEN pc' = "idle" /\ UNCHANGED <<users, messages, fault>>
       ELSE Panic("L170")
    /\ UNCHANGED <<chat_input, outbox, delivered, ret, username, codec>>

\* the user edits the text of the input element
TypeInput(t) ==
    /\ pc = "idle"
    /\ chat_input # t
    /\ chat_input' = t
    /\ UNCHANGED <<pc, users, messages, outbox, delivered, ret, fault, username, codec>>

\* a frame that arrives after a panic: the component no longer runs
FrameLost(s) ==
    /\ pc = "panicked"
    /\ Events < MaxEvents
    /\ delivered' = Append(delivered, s)
    /\ UNCHANGED <<pc, users, messages, chat_input, outbox, ret, fault, username, codec>>

Next ==
    \/ \E u \in Usernames, ok \in BOOLEAN : Create(u, ok)
    \/ \E s \in Frames : HandleMsg(s)
    \/ \E ok \in BOOLEAN : SubmitMessage(ok)
    \/ Render
    \/ \E t \in InputTexts : TypeInput(t)
    \/ \E s \in Frames : FrameLost(s)

Spec == Init /\ [][Next]_vars

\* ---------------------------------------------------------------- the codec alone
\* serde_json::to_string(&message) on a constructed envelope, then
\* serde_json::from_str on the text it produced
InitCodec ==
    /\ pc = "start"
    /\ users = <<>>
    /\ messages = <<>>
    /\ chat_input = ""
    /\ outbox = <<>>
    /\ delivered = <<>>
    /\ ret = "none"
    /\ fault = "none"
    /\ username \in Usernames
    /\ codec \in { [stage |-> "env", env |-> e, wire |-> Garbage, back |-> DecodeFailed] :
                      e \in Envelopes }

CodecEncode ==
    /\ codec.stage = "env"
    /\ codec' = [codec EXCEPT !.stage = "wire", !.wire = EncodeEnvelope(codec.env)]
    /\ UNCHANGED <<pc, users, messages, chat_input, outbox, delivered, ret, fault, username>>

CodecDecode ==
    /\ codec.stage = "wire"
    /\ codec' = [codec EXCEPT !.stage = "back", !.back = DecodeEnvelope(codec.wire)]
    /\ UNCHANGED <<pc, users, messages, chat_input, outbox, delivered, ret, fault, username>>

NextCodec == CodecEncode \/ CodecDecode

SpecCodec == InitCodec /\ [][NextCodec]_vars

TypeOK ==
    /\ pc \in {"start", "idle", "render", "panicked"}
    /\ ret \in {"none", "true", "false", "panic"}
    /\ fault \in {"none", "L87", "L106_data", "L106_nested", "L170"}
    /\ chat_input \in InputTexts
    /\ Len(delivered) + Len(outbox) <= MaxEvents + 1
    /\ username \in Usernames
    /\ codec.stage \in {"idle", "env", "wire", "back"}

\* ---------------------------------------------------------------- reading a step
\* a step in which update ran on a frame, and the frame it ran on
HandledStep == pc = "idle" /\ Len(delivered') = Len(delivered) + 1
NewFrame == delivered'[Len(delivered')]
LastFrame == delivered[Len(delivered)]

\* what the wire format (spec, section 6) calls a well-formed envelope, read off the text
TextIsEnvelope(s) == s.kind = "obj" /\ s.mt \in {"users", "register", "message"}
TextIsUsers(s) == TextIsEnvelope(s) /\ s.mt = "users"
TextIsRegister(s) == TextIsEnvelope(s) /\ s.mt = "register"
TextIsChatMessage(s) ==
    /\ TextIsEnvelope(s)
    /\ s.mt = "message"
    /\ s.d.tag = "string"
    /\ s.d.text.kind = "obj"
    /\ s.d.text.from # Absent
    /\ s.d.text.message # Absent
TextPair(s) == [from |-> s.d.text.from, message |-> s.d.text.message]

Discarded == pc' = "idle" /\ users' = users /\ messages' = messages /\ fault' = "none"

\* ---------------------------------------------------------------- claims

\* C1: a frame that does not decode as an envelope is discarded: the handler
\* does not crash, roster and log are unchanged, the session goes on.
C1_DecodeFailureDiscarded ==
    [][(HandledStep /\ ~TextIsEnvelope(NewFrame)) => Discarded]_vars

\* C2: a Message envelope whose data is absent or is no {from, message} pair is
\* discarded like a top-level decode failure: no crash, roster and log unchanged.
C2_NestedFailureDiscarded ==
    [][(HandledStep /\ TextIsEnvelope(NewFrame) /\ NewFrame.mt = "message"
          /\ ~TextIsChatMessage(NewFrame)) => Discarded]_vars

\* C3: rendering never fails, also when a logged message's sender is not in
\* the roster.
C3_ViewNeverFails == fault # "L170"

\* C4: handling a well-formed Message envelope appends exactly its
\* (from, message) entry to the end of the log, whatever the roster holds.
C4_MessageAppended ==
    [][(HandledStep /\ TextIsChatMessage(NewFrame))
          => messages' = Append(messages, TextPair(NewFrame))]_vars

C4_Witness ==
    /\ pc = "render"
    /\ ret = "true"
    /\ delivered # <<>>
    /\ TextIsChatMessage(LastFrame)
    /\ LastFrame.d.text.from = "ghost"
    /\ \A i \in 1..Len(users) : users[i].name # "ghost"
    /\ users # <<>>
    /\ messages # <<>>
    /\ messages[Len(messages)] = [from |-> "ghost", message |-> "hello.gif"]

\* C5: handling a Users envelope replaces the roster by one profile per entry
\* of dataArray, avatar derived from the name, whatever the roster held before.
C5_RosterReplaced ==
    [][(HandledStep /\ TextIsUsers(NewFrame) /\ NewFrame.da.tag = "array")
          => /\ Len(users') = Len(NewFrame.da.items)
             /\ \A i \in 1..Len(NewFrame.da.items) :
                   users'[i] = [name |-> NewFrame.da.items[i],
                                avatar |-> AvatarBase \o NewFrame.da.items[i] \o ".svg"]]_vars

C5_Witness ==
    /\ pc = "render"
    /\ Len(delivered) >= 2
    /\ delivered[Len(delivered) - 1] = JObject("users", JArray(<<"alice", "bob">>), NoData)
    /\ LastFrame = JObject("users", JArray(<<"alice">>), NoData)
    /\ users = <<[name |-> "alice",
                  avatar |-> "https://avatars.dicebear.com/api/adventurer-neutral/alice.svg"]>>

RECURSIVE PairsOf(_)
PairsOf(frames) ==
    IF frames = <<>> THEN <<>>
    ELSE LET rest == PairsOf(SubSeq(frames, 1, Len(frames) - 1))
             f == frames[Len(frames)]
         IN IF TextIsChatMessage(f) THEN Append(rest, TextPair(f)) ELSE rest

\* C7: the log is the sequence of pairs of the well-formed Message envelopes
\* among the frames delivered so far, in delivery order, bodies verbatim.
C7_OrderPreservation == messages = PairsOf(delivered)

\* C8: no two roster entries share a name.
C8_RosterNamesUnique ==
    \A i, j \in 1..Len(users) : users[i].name = users[j].name => i = j

C10_RerenderSignal ==
    [][(pc = "idle" /\ (delivered' # delivered \/ outbox' # outbox))
          => IF delivered' # delivered
                /\ (TextIsUsers(NewFrame) \/ TextIsChatMessage(NewFrame))
             THEN ret' = "true"
             ELSE ret' = "false"]_vars

\* ---------------------------------------------------------------- outbound claims
LastSent == outbox[Len(outbox)]
NewSent == outbox'[Len(outbox')]
SubmitStep == pc = "idle" /\ outbox' # outbox

\* the text is an envelope of type mt whose data is the word w and whose
\* data_array is None (no array on the wire)
TextCarries(x, mt, w) ==
    /\ x.kind = "obj"
    /\ x.mt = mt
    /\ x.da.tag \in {"absent", "null"}
    /\ x.d.tag = "string"
    /\ x.d.text.kind = "plain"
    /\ x.d.text.s = w

\* C11: from construction on, the first send attempt is the Register envelope
\* with data = username and no data_array, no other send attempt is a Register
\* envelope, and no frame is delivered before it.
C11_RegisterOnce ==
    /\ pc = "start" => (outbox = <<>> /\ delivered = <<>>)
    /\ pc # "start" =>
         /\ Len(outbox) >= 1
         /\ TextCarries(outbox[1].text, "register", username)
         /\ \A i \in 2..Len(outbox) : outbox[i].text.mt # "register"

C11_Witness ==
    /\ pc = "idle"
    /\ username = "bob"
    /\ Len(outbox) = 2
    /\ Len(delivered) = 2
    /\ TextCarries(outbox[1].text, "register", "bob")
    /\ TextCarries(outbox[2].text, "message", "hi")

\* C12: create ends with an empty roster and log and a running component
\* whether or not the Register send succeeded, and after a failed Register send
\* no step sends a Register envelope again.
C12_FailedRegisterTolerated ==
    [][/\ pc = "start" =>
            /\ pc' = "render"
            /\ fault' = "none"
            /\ users' = <<>>
            /\ messages' = <<>>
            /\ Len(outbox') = 1
       /\ (pc # "start" /\ ~outbox[1].ok /\ outbox' # outbox) =>
            /\ Len(outbox') = Len(outbox) + 1
            /\ NewSent.text.mt # "register"]_vars

C12_Witness ==
    /\ pc = "idle"
    /\ fault = "none"
    /\ Len(outbox) = 2
    /\ ~outbox[1].ok
    /\ TextCarries(outbox[2].text, "message", "hi")
    /\ Len(delivered) = 2
    /\ users # <<>>
    /\ messages # <<>>

\* C13: a submit adds exactly one send attempt, of a Message envelope whose
\* data is the input text as it was (the empty text too) and whose data_array
\* is None.
C13_SubmitSendsInput ==
    [][SubmitStep =>
         /\ Len(outbox') = Len(outbox) + 1
         /\ SubSeq(outbox', 1, Len(outbox)) = outbox
         /\ TextCarries(NewSent.text, "message", chat_input)]_vars

C13_Witness ==
    /\ pc = "idle"
    /\ Len(outbox) = 3
    /\ TextCarries(outbox[2].text, "message", "hi")
    /\ TextCarries(outbox[3].text, "message", "")

\* C14: a submit leaves the input empty whether the send succeeded or failed,
\* makes one attempt only and leaves the component running.
C14_InputClearedAnyway ==
    [][SubmitStep =>
         /\ chat_input' = ""
         /\ Len(outbox') = Len(outbox) + 1
         /\ pc' = "idle"
         /\ fault' = "none"]_vars

C14_Witness ==
    /\ pc = "idle"
    /\ fault = "none"
    /\ chat_input = ""
    /\ Len(outbox) = 2
    /\ ~LastSent.ok
    /\ TextCarries(LastSent.text, "message", "hi")

\* ---------------------------------------------------------------- state claims

\* C15: a Users envelope delivered again right after itself leaves the roster
\* and the log as its first delivery left them.
C15_RosterIdempotent ==
    [][(Len(delivered') = Len(delivered) + 1 /\ delivered # <<>>
          /\ TextIsUsers(NewFrame) /\ NewFrame = LastFrame)
          => (users' = users /\ messages' = messages)]_vars

C15_Witness ==
    /\ pc = "render"
    /\ ret = "true"
    /\ Len(delivered) = 3
    /\ delivered[1] = JObject("users", JArray(<<"alice">>), NoData)
    /\ delivered[2] = JObject("users", JArray(<<"alice", "bob">>), NoData)
    /\ delivered[3] = delivered[2]
    /\ Len(users) = 2

\* C16: decoding the encoding of an envelope gives the envelope back, for
\* each message type and data, data_array each None or Some.
C16_RoundTrip ==
    codec.stage = "back" =>
        /\ codec.back.ok
        /\ codec.back.message_type = codec.env.message_type
        /\ codec.back.data_array = codec.env.data_array
        /\ codec.back.data = codec.env.data

C16_Witness ==
    /\ codec.stage = "back"
    /\ codec.env.message_type = "Users"
    /\ ~codec.env.data_array.some
    /\ codec.env.data = SomeStr(JPair("bob", "yo"))
    /\ codec.wire.da.tag = "null"
    /\ codec.back.ok
    /\ ~codec.back.data_array.some

IsPrefix(a, b) == Len(a) <= Len(b) /\ SubSeq(b, 1, Len(a)) = a

\* C17: every step leaves the log as it was or extends it at the end.
C17_LogAppendOnly == [][IsPrefix(messages, messages')]_vars

C17_Witness ==
    /\ pc = "idle"
    /\ Len(delivered) = 3
    /\ Len(users) = 2
    /\ messages = <<[from |-> "alice", message |-> "hi"], [from |-> "bob", message |-> "yo"]>>

\* C18: a Users envelope leaves the log unchanged, a Message envelope leaves
\* the roster unchanged, a submit leaves both unchanged and returns false; and
\* nothing else changes the roster or the log.
C18_FrameEffects ==
    [][/\ (HandledStep /\ TextIsUsers(NewFrame)) => messages' = messages
       /\ (HandledStep /\ TextIsChatMessage(NewFrame)) => users' = users
       /\ SubmitStep => (users' = users /\ messages' = messages /\ ret' = "false")
       /\ users' # users => (HandledStep /\ TextIsUsers(NewFrame))
       /\ messages' # messages => (HandledStep /\ TextIsChatMessage(NewFrame))]_vars

C18_Witness ==
    /\ pc = "render"
    /\ ret = "true"
    /\ Len(delivered) = 3
    /\ LastFrame = JObject("users", JArray(<<"bob", "bob">>), NoData)
    /\ messages = <<[from |-> "alice", message |-> "hi"]>>
    /\ \A i \in 1..Len(users) : users[i].name # "alice"
    /\ users # <<>>

\* the names of the last Users envelope among frames, none when there is none
RECURSIVE LastUsersItems(_)
LastUsersItems(frames) ==
    IF frames = <<>> THEN <<>>
    ELSE LET f == frames[Len(frames)] IN
         IF TextIsUsers(f)
         THEN IF f.da.tag = "array" THEN f.da.items ELSE <<>>
         ELSE LastUsersItems(SubSeq(frames, 1, Len(frames) - 1))

\* C19: every roster entry's avatar is the avatar base, the entry's name and
\* ".svg"; the roster's names are, in order, those of the last Users envelope
\* that was applied (all delivered frames while the component runs, a prefix of
\* them once it has panicked), and none before the first one.
C19_RosterShape ==
    /\ \A i \in 1..Len(users) :
          users[i].avatar =
              "https://avatars.dicebear.com/api/adventurer-neutral/" \o users[i].name \o ".svg"
    /\ \E k \in 0..Len(delivered) :
          /\ pc # "panicked" => k = Len(delivered)
          /\ [i \in 1..Len(users) |-> users[i].name]
                = LastUsersItems(SubSeq(delivered, 1, k))

C19_Witness ==
    /\ pc = "idle"
    /\ Len(delivered) = 3
    /\ delivered[1] = JObject("users", JArray(<<"bob", "bob">>), NoData)
    /\ delivered[2] = JObject("users", JArray(<<"alice", "bob">>), NoData)
    /\ TextIsRegister(delivered[3])
    /\ users = <<[name |-> "alice",
                  avatar |-> "https://avatars.dicebear.com/api/adventurer-neutral/alice.svg"],
                 [name |-> "bob",
                  avatar |-> "https://avatars.dicebear.com/api/adventurer-neutral/bob.svg"]>>
====
